---- MODULE Spec2Model ----
(***************************************************************************)
(* LawChat: the ingestion script process_pdfs_to_pinecone.py (chunking,    *)
(* change detection, batched upsert, processed-file tracking) as a state   *)
(* machine.                                                                *)
(*                                                                         *)
(* Three specifications share the variables:                               *)
(*   Spec       ingestion runs of main() over a directory that changes     *)
(*              between the runs;                                          *)
(*   SpecBatch  ingestion runs over long documents (several batches);      *)
(*   SpecChunk  chunk_text applied to texts of every length up to a bound. *)
(***************************************************************************)
EXTENDS Integers, Sequences, FiniteSets, TLC

\* ------------------------------------------------------------- constants

CHUNK_SIZE == 1000
CHUNK_OVERLAP == 200
MIN_CHUNK_LEN == 50
BATCH_SIZE == 50

\* ---------------------------------------------------------------- bounds

\* SpecChunk: the longest text chunk_text is applied to.
MaxTextLen == 1900
\* The characters of a document are drawn from an alphabet of this size.
AlphabetSize == 7
\* Spec: the number of ingestion runs and of changes to the document directory.
MaxRuns == 2
MaxWrites == 1

\* ----------------------------------------------------------------- texts

(***************************************************************************)
(* A text (a Python str) is held as the half-open range lo..hi-1 of the    *)
(* characters of a document content doc; Chars gives its characters.  The  *)
(* empty string has one representation, EmptyText.                         *)
(***************************************************************************)
Min(a, b) == IF a <= b THEN a ELSE b

CharAt(doc, p) == (doc + p) % AlphabetSize

EmptyText == [doc |-> 0, lo |-> 0, hi |-> 0]

MakeText(doc, n) == IF n = 0 THEN EmptyText ELSE [doc |-> doc, lo |-> 0, hi |-> n]

\* len(text)
TLen(t) == t.hi - t.lo

\* text[a:b] for 0 <= a <= b: Python clamps both ends to len(text).
TSlice(t, a, b) ==
    LET s == t.lo + Min(a, TLen(t))
        e == t.lo + Min(b, TLen(t))
    IN  IF e <= s THEN EmptyText ELSE [doc |-> t.doc, lo |-> s, hi |-> e]

\* The characters of a text, as a sequence.
Chars(t) == [j \in 1..TLen(t) |-> CharAt(t.doc, t.lo + j - 1)]

\* ------------------------------------------------------------ chunk_text

\* range(0, len(text), CHUNK_SIZE - CHUNK_OVERLAP): the step of the window.
WindowStepWide == CHUNK_SIZE + CHUNK_OVERLAP
WindowStep == CHUNK_SIZE - CHUNK_OVERLAP

\* The chunk_data dictionary built for the window starting at i.
ChunkDataFullEnd(chunk_text, filename, n, i) ==
    [text |-> chunk_text,
     metadata |-> [source |-> filename, chunk_index |-> n,
                   char_start |-> i, char_end |-> i + CHUNK_SIZE]]
ChunkDataOneBased(chunk_text, filename, n, i) ==
    [text |-> chunk_text,
     metadata |-> [source |-> filename, chunk_index |-> n + 1,
                   char_start |-> i, char_end |-> i + TLen(chunk_text)]]
ChunkData(chunk_text, filename, n, i) ==
    [text |-> chunk_text,
     metadata |-> [source |-> filename, chunk_index |-> n,
                   char_start |-> i, char_end |-> i + TLen(chunk_text)]]

\* if len(chunk_text) < 50: continue
IsTooSmallOnlyIfEmpty(chunk_text) == TLen(chunk_text) < 1
IsTooSmallInverted(chunk_text) == TLen(chunk_text) > MIN_CHUNK_LEN
IsTooSmall(chunk_text) == TLen(chunk_text) < MIN_CHUNK_LEN

\* One iteration per window start i; a slice shorter than 50 is skipped.
RECURSIVE ChunkLoop(_, _, _, _)
ChunkLoop(text, filename, i, chunks) ==
    IF i >= TLen(text) THEN chunks
    ELSE LET chunk_text == TSlice(text, i, i + CHUNK_SIZE)
         IN  IF IsTooSmall(chunk_text)
             THEN ChunkLoop(text, filename, i + WindowStep, chunks)
             ELSE ChunkLoop(text, filename, i + WindowStep,
                            Append(chunks, ChunkData(chunk_text, filename, Len(chunks), i)))

ChunkText(text, filename) == ChunkLoop(text, filename, 0, <<>>)

\* ------------------------------------------------------- prepare_batches

\* for i in range(0, len(items), batch_size): yield items[i:i + batch_size]
RECURSIVE BatchLoop(_, _, _, _)
BatchLoop(items, batch_size, i, out) ==
    IF i >= Len(items) THEN out
    ELSE BatchLoop(items, batch_size, i + batch_size,
                   Append(out, SubSeq(items, i + 1, Min(i + batch_size, Len(items)))))

PrepareBatchesFullOnly(items, batch_size) ==
    SelectSeq(BatchLoop(items, batch_size, 0, <<>>), LAMBDA b : Len(b) = batch_size)
PrepareBatches(items, batch_size) == BatchLoop(items, batch_size, 0, <<>>)

\* ------------------------------------------------ the document directory

\* File names, as the sequences of their characters (glob keeps *.pdf only).
FileA == <<"a", ".pdf">>
FileB == <<"b", ".pdf">>
Files == {FileA, FileB}

NoFile == [present |-> FALSE]

FileEntry(size, mtime, doc, len) ==
    [present |-> TRUE, size |-> size, mtime |-> mtime, doc |-> doc, len |-> len]

(***************************************************************************)
(* The versions a file of the directory can have: its os.stat size and     *)
(* mtime, and the text its PDF holds (the document content and its length  *)
(* in characters).  A text of 40 characters gives no chunk, of 60 one, of  *)
(* 900 two, of 40050 fifty-one (two batches).  Between the versions of a   *)
(* file the size alone, the mtime alone or both differ, and the text stays *)
(* (a touched file), shrinks or grows.                                     *)
(***************************************************************************)
Versions(f) ==
    IF f = FileA
    THEN {FileEntry(1, 1, 1, 900), FileEntry(1, 2, 1, 900),
          FileEntry(2, 1, 2, 60), FileEntry(2, 2, 3, 40)}
    ELSE {FileEntry(1, 1, 4, 60), FileEntry(2, 1, 5, 900)}

LongVersions(f) ==
    IF f = FileA
    THEN {FileEntry(1, 1, 6, 40050), FileEntry(1, 1, 1, 900)}
    ELSE {FileEntry(1, 1, 7, 40050), FileEntry(1, 1, 4, 60)}

Present(d) == {f \in Files : d[f].present}

\* -------------------------------------------------- processed_files.json

\* A dict keyed by file name; {} is the function with the empty domain.
EmptyMap == [f \in {} |-> 0]

\* dict.update
UpdateReplacing(m, d) == d
Update(m, d) ==
    [f \in (DOMAIN m) \cup (DOMAIN d) |-> IF f \in DOMAIN d THEN d[f] ELSE m[f]]

(***************************************************************************)
(* The tracking file on disk: absent, a complete JSON document holding a   *)
(* mapping, or torn (a strict prefix of a JSON document, the empty file    *)
(* included, which json.load rejects).  json.dump followed by json.load    *)
(* gives back the same dict: its keys are strings, its values ints, a      *)
(* float written by repr and an ISO time string.                           *)
(***************************************************************************)
AbsentFile == [state |-> "absent", data |-> EmptyMap]
TornFile == [state |-> "torn", data |-> EmptyMap]
JsonFile(m) == [state |-> "json", data |-> m]

LoadProcessedFiles(file) ==
    IF file.state = "json" THEN file.data ELSE EmptyMap

\* ------------------------------------------------------------- variables

VARIABLES
    input,      \* the argument(s) of the function a function spec calls
    result,     \* what that function returned
    cpc,        \* "ready" before the call, "done" after it; "off" elsewhere
    dir,        \* DOCS_DIR: file name -> stat values and PDF content
    trackFile,  \* TRACKING_FILE on disk
    index,      \* the Pinecone index: vector id -> record
    pc,         \* main(): "idle", "extract", "batch", "save", "write"
    processed_files,      \* main's local of that name
    files_to_process,     \* main's local of that name
    skipped_files,        \* main's local of that name
    all_chunks,           \* main's local of that name
    processed_file_data,  \* main's local of that name
    pos,                  \* the loop position: 1-based file or batch number
    total_upserted,       \* main's local of that name
    nRuns,      \* runs started so far; the clock behind processed_at
    nWrites,    \* changes made to the directory so far
    outcome,    \* how the last run ended
    loaded,     \* history: processed_files as the run loaded it
    runDir,     \* history: the directory as the run found it
    extracted,  \* history: files the run passed to extract_text_from_pdf
    extractedOk,\* history: those for which it returned a non-empty text
    batchLog,   \* history: the outcome of each batch the run attempted
    prev,       \* history: the run before this one
    messages,       \* st.session_state.messages
    last_sources,   \* st.session_state.last_sources
    search_history, \* st.session_state.search_history
    query_cache,    \* st.session_state.query_cache, in insertion order
    chat_count,     \* st.session_state.chat_count
    now,            \* time.time(), in seconds
    tpc,            \* the turn: "off", "idle", "process"
    turn,           \* history: the query, remote calls and outcome of the turn
    cited           \* history: the sources of the call behind the last answer

chunkVars == <<input, result, cpc>>
diskVars == <<dir, trackFile, index>>
runVars == <<pc, processed_files, files_to_process, skipped_files, all_chunks,
             processed_file_data, pos, total_upserted>>
sessionVars == <<messages, last_sources, search_history, query_cache, chat_count,
                 now, tpc, turn, cited>>
histVars == <<nRuns, nWrites, outcome, loaded, runDir, extracted, extractedOk,
              batchLog, prev>>

vars == <<input, result, cpc, dir, trackFile, index, pc, processed_files,
          files_to_process, skipped_files, all_chunks, processed_file_data, pos,
          total_upserted, nRuns, nWrites, outcome, loaded, runDir, extracted,
          extractedOk, batchLog, prev, messages, last_sources, search_history,
          query_cache, chat_count, now, tpc, turn, cited>>

\* No chat session is open.
NoTurn == [query |-> <<>>, before |-> <<>>, calls |-> <<>>, outcome |-> "none"]

IdleSession ==
    /\ messages = <<>>
    /\ last_sources = <<>>
    /\ search_history = <<>>
    /\ query_cache = <<>>
    /\ chat_count = 0
    /\ now = 0
    /\ tpc = "off"
    /\ turn = NoTurn
    /\ cited = <<>>

\* ---------------------------------------------------------- change detection

\* file_has_changed: False only for a recorded file of unchanged size and mtime.
FileHasChangedSizeOnly(f, recs) ==
    IF f \in DOMAIN recs
    THEN IF dir[f].size = recs[f].size THEN FALSE ELSE TRUE
    ELSE TRUE
FileHasChanged(f, recs) ==
    IF f \in DOMAIN recs
    THEN IF dir[f].size = recs[f].size /\ dir[f].mtime = recs[f].mtime
         THEN FALSE ELSE TRUE
    ELSE TRUE

\* The test of main's partition loop: the file goes to skipped_files.
IsSkippedIfRecorded(f, recs) == f \in DOMAIN recs
IsSkipped(f, recs) == f \in DOMAIN recs /\ ~FileHasChanged(f, recs)

\* ------------------------------------------------------------ vector index

RECURSIVE Digits(_)
Digits(k) == IF k < 10 THEN <<k>> ELSE Append(Digits(k \div 10), k % 10)

\* f"doc_{source}_{chunk_index}"
VectorIdNoSource(source, chunk_index) == <<"doc_">> \o <<"_">> \o Digits(chunk_index)
VectorId(source, chunk_index) == <<"doc_">> \o source \o <<"_">> \o Digits(chunk_index)

\* The record main builds for a chunk; its vector is the embedding of the text.
IndexRecord(item) ==
    [id |-> VectorId(item.metadata.source, item.metadata.chunk_index),
     values |-> item.text,
     metadata |-> [text |-> item.text,
                   source |-> item.metadata.source,
                   chunk_index |-> item.metadata.chunk_index,
                   char_start |-> item.metadata.char_start,
                   char_end |-> item.metadata.char_end]]

\* index.upsert(vectors=records): keyed by id, a present id is overwritten.
Upsert(idx, batch) ==
    LET ids == {IndexRecord(batch[i]).id : i \in 1..Len(batch)}
        last(id) == CHOOSE i \in 1..Len(batch) :
                        /\ IndexRecord(batch[i]).id = id
                        /\ \A j \in (i + 1)..Len(batch) : IndexRecord(batch[j]).id # id
    IN  [id \in (DOMAIN idx) \cup ids |->
            IF id \in ids THEN IndexRecord(batch[last(id)]) ELSE idx[id]]

\* ------------------------------------------------------------------ Spec

IdleChunk == /\ input = EmptyText /\ result = <<>> /\ cpc = "off"

NoRun == [outcome |-> "none", dir |-> [f \in Files |-> NoFile],
          toProcess |-> {}, extractedOk |-> {}, chunks |-> <<>>]

\* Before the first run: any directory of PDFs, no tracking file, an empty index.
Init ==
    /\ IdleChunk
    /\ IdleSession
    /\ dir \in [Files -> UNION {Versions(f) : f \in Files} \cup {NoFile}]
    /\ \A f \in Files : dir[f] \in Versions(f) \cup {NoFile}
    /\ trackFile = AbsentFile
    /\ index = EmptyMap
    /\ pc = "idle"
    /\ processed_files = EmptyMap
    /\ files_to_process = <<>>
    /\ skipped_files = <<>>
    /\ all_chunks = <<>>
    /\ processed_file_data = EmptyMap
    /\ pos = 0
    /\ total_upserted = 0
    /\ nRuns = 0
    /\ nWrites = 0
    /\ outcome = "none"
    /\ loaded = EmptyMap
    /\ runDir = [f \in Files |-> NoFile]
    /\ extracted = {}
    /\ extractedOk = {}
    /\ batchLog = <<>>
    /\ prev = NoRun

\* Someone creates or replaces a PDF in DOCS_DIR while no run is under way.
PutFile ==
    /\ pc = "idle"
    /\ nWrites < MaxWrites
    /\ \E f \in Files : \E v \in Versions(f) :
          /\ dir[f] # v
          /\ dir' = [dir EXCEPT ![f] = v]
    /\ nWrites' = nWrites + 1
    /\ UNCHANGED <<sessionVars, chunkVars, trackFile, index, runVars, nRuns, outcome, loaded,
                   runDir, extracted, extractedOk, batchLog, prev>>

\* Someone removes a PDF from DOCS_DIR while no run is under way.
RemoveFile ==
    /\ pc = "idle"
    /\ nWrites < MaxWrites
    /\ \E f \in Present(dir) : dir' = [dir EXCEPT ![f] = NoFile]
    /\ nWrites' = nWrites + 1
    /\ UNCHANGED <<sessionVars, chunkVars, trackFile, index, runVars, nRuns, outcome, loaded,
                   runDir, extracted, extractedOk, batchLog, prev>>

\* What a run leaves behind for the history of the next one.
ThisRun == [outcome |-> outcome, dir |-> runDir,
            toProcess |-> {files_to_process[i] : i \in 1..Len(files_to_process)},
            extractedOk |-> extractedOk, chunks |-> all_chunks]

\* The orders glob.glob can list a set of files in.
Orders(S) == {s \in UNION {[1..n -> S] : n \in {Cardinality(S)}} :
                 \A i, j \in 1..Len(s) : i # j => s[i] # s[j]}

\* main, lines 110-125: a missing API key, the Pinecone client or
\* describe_index_stats raises before anything is read from the directory.
StartRaise ==
    /\ pc = "idle"
    /\ nRuns < MaxRuns
    /\ nRuns' = nRuns + 1
    /\ prev' = ThisRun
    /\ processed_files' = LoadProcessedFiles(trackFile)
    /\ loaded' = LoadProcessedFiles(trackFile)
    /\ runDir' = dir
    /\ files_to_process' = <<>>
    /\ skipped_files' = <<>>
    /\ all_chunks' = <<>>
    /\ processed_file_data' = EmptyMap
    /\ pos' = 0
    /\ total_upserted' = 0
    /\ extracted' = {}
    /\ extractedOk' = {}
    /\ batchLog' = <<>>
    /\ outcome' = "raised"
    /\ pc' = "idle"
    /\ UNCHANGED <<sessionVars, chunkVars, diskVars, nWrites>>

\* main, lines 116-153: load the records, list the PDFs, partition them.
Start ==
    /\ pc = "idle"
    /\ nRuns < MaxRuns
    /\ nRuns' = nRuns + 1
    /\ prev' = ThisRun
    /\ processed_files' = LoadProcessedFiles(trackFile)
    /\ loaded' = LoadProcessedFiles(trackFile)
    /\ runDir' = dir
    /\ all_chunks' = <<>>
    /\ processed_file_data' = EmptyMap
    /\ total_upserted' = 0
    /\ extracted' = {}
    /\ extractedOk' = {}
    /\ batchLog' = <<>>
    /\ \E pdf_files \in Orders(Present(dir)) :
          LET recs == LoadProcessedFiles(trackFile)
              skip(f) == IsSkipped(f, recs)
              keep(f) == ~IsSkipped(f, recs)
          IN  /\ skipped_files' = IF pdf_files = <<>> THEN <<>>
                                  ELSE SelectSeq(pdf_files, skip)
              /\ files_to_process' = IF pdf_files = <<>> THEN <<>>
                                     ELSE SelectSeq(pdf_files, keep)
              /\ IF pdf_files = <<>>
                 THEN /\ outcome' = "no_pdfs" /\ pc' = "idle" /\ pos' = 0
                 ELSE IF SelectSeq(pdf_files, keep) = <<>>
                 THEN /\ outcome' = "nothing_to_process" /\ pc' = "idle" /\ pos' = 0
                 ELSE /\ outcome' = "running" /\ pc' = "extract" /\ pos' = 1
    /\ UNCHANGED <<sessionVars, chunkVars, diskVars, nWrites>>

\* extract_text_from_pdf: the text of the PDF, or "" when PyPDF2 raises.
ExtractTextFromPdf(f, ok) ==
    IF ok THEN MakeText(dir[f].doc, dir[f].len) ELSE EmptyText

\* The record main keeps for a file it extracted text from (lines 168-175).
FileRecordRunTime(f, chunks) ==
    [size |-> dir[f].size, mtime |-> nRuns, chunks |-> Len(chunks),
     processed_at |-> nRuns, vector_count |-> Len(chunks)]
FileRecord(f, chunks) ==
    [size |-> dir[f].size, mtime |-> dir[f].mtime, chunks |-> Len(chunks),
     processed_at |-> nRuns, vector_count |-> Len(chunks)]

\* main, lines 159-181: one iteration of the extraction loop and, after the
\* last file, the early return when no chunk was created.
ExtractFile ==
    /\ pc = "extract"
    /\ \E ok \in BOOLEAN :
          LET f == files_to_process[pos]
              text == ExtractTextFromPdf(f, ok)
              chunks == ChunkText(text, f)
              chunks_after == IF TLen(text) > 0 THEN all_chunks \o chunks
                              ELSE all_chunks
          IN  /\ extracted' = extracted \cup {f}
              /\ extractedOk' = IF TLen(text) > 0 THEN extractedOk \cup {f}
                                ELSE extractedOk
              /\ all_chunks' = chunks_after
              /\ processed_file_data' =
                    IF TLen(text) > 0
                    THEN Update(processed_file_data, (f :> FileRecord(f, chunks)))
                    ELSE processed_file_data
              /\ IF pos < Len(files_to_process)
                 THEN /\ pos' = pos + 1 /\ pc' = "extract" /\ outcome' = outcome
                 ELSE IF chunks_after = <<>>
                 THEN /\ pos' = 0 /\ pc' = "idle" /\ outcome' = "no_chunks"
                 ELSE /\ pos' = 1 /\ pc' = "batch" /\ outcome' = outcome
    /\ UNCHANGED <<sessionVars, chunkVars, diskVars, processed_files, files_to_process,
                   skipped_files, total_upserted, nRuns, nWrites, loaded, runDir,
                   batchLog, prev>>

\* The except clause of the batch loop (lines 215-216) catches every
\* Exception and the loop goes on with the next batch.
AbortsOnBatchError(oc) == oc = "ok"
LoopGoesOnAfter(oc) == TRUE

\* main, lines 185-216: one batch is embedded and upserted, or raises.
ProcessBatch ==
    /\ pc = "batch"
    /\ \E oc \in {"ok", "error"} :
          LET batches == PrepareBatches(all_chunks, BATCH_SIZE)
              batch == batches[pos]
          IN  /\ batchLog' = Append(batchLog, oc)
              /\ index' = IF oc = "ok" THEN Upsert(index, batch) ELSE index
              /\ total_upserted' = IF oc = "ok" THEN total_upserted + Len(batch)
                                   ELSE total_upserted
              /\ IF ~LoopGoesOnAfter(oc)
                 THEN /\ pos' = 0 /\ pc' = "idle" /\ outcome' = "raised"
                 ELSE IF pos < Len(batches)
                 THEN /\ pos' = pos + 1 /\ pc' = "batch" /\ outcome' = outcome
                 ELSE /\ pos' = 0 /\ pc' = "save" /\ outcome' = outcome
    /\ UNCHANGED <<sessionVars, chunkVars, dir, trackFile, processed_files, files_to_process,
                   skipped_files, all_chunks, processed_file_data, nRuns, nWrites,
                   loaded, runDir, extracted, extractedOk, prev>>

\* main, line 219, and save_processed_files, line 43: the records of this
\* run are merged in and open(TRACKING_FILE, 'w') truncates the file.
SaveOpen ==
    /\ pc = "save"
    /\ processed_files' = Update(processed_files, processed_file_data)
    /\ trackFile' = TornFile
    /\ pc' = "write"
    /\ UNCHANGED <<sessionVars, chunkVars, dir, index, files_to_process, skipped_files,
                   all_chunks, processed_file_data, pos, total_upserted, histVars>>

\* save_processed_files, line 44: json.dump writes the whole mapping and the
\* file is closed; main ends.
SaveDump ==
    /\ pc = "write"
    /\ trackFile' = JsonFile(processed_files)
    /\ pc' = "idle"
    /\ outcome' = "saved"
    /\ UNCHANGED <<sessionVars, chunkVars, dir, index, processed_files, files_to_process,
                   skipped_files, all_chunks, processed_file_data, pos,
                   total_upserted, nRuns, nWrites, loaded, runDir, extracted,
                   extractedOk, batchLog, prev>>

\* The process is killed while json.dump is writing: the file keeps a strict
\* prefix of the document.
CrashInSave ==
    /\ pc = "write"
    /\ trackFile' = TornFile
    /\ pc' = "idle"
    /\ outcome' = "crashed"
    /\ UNCHANGED <<sessionVars, chunkVars, dir, index, processed_files, files_to_process,
                   skipped_files, all_chunks, processed_file_data, pos,
                   total_upserted, nRuns, nWrites, loaded, runDir, extracted,
                   extractedOk, batchLog, prev>>

Next ==
    \/ PutFile
    \/ RemoveFile
    \/ StartRaise
    \/ Start
    \/ ExtractFile
    \/ ProcessBatch
    \/ SaveOpen
    \/ SaveDump
    \/ CrashInSave

Spec == Init /\ [][Next]_vars

\* ------------------------------------------------------------- SpecBatch

\* Runs over a directory of long documents that nobody changes: the chunks
\* of a run fill up to three batches.
InitBatch ==
    /\ IdleChunk
    /\ IdleSession
    /\ dir \in [Files -> UNION {LongVersions(f) : f \in Files} \cup {NoFile}]
    /\ \A f \in Files : dir[f] \in LongVersions(f) \cup {NoFile}
    /\ trackFile = AbsentFile
    /\ index = EmptyMap
    /\ pc = "idle"
    /\ processed_files = EmptyMap
    /\ files_to_process = <<>>
    /\ skipped_files = <<>>
    /\ all_chunks = <<>>
    /\ processed_file_data = EmptyMap
    /\ pos = 0
    /\ total_upserted = 0
    /\ nRuns = 0
    /\ nWrites = 0
    /\ outcome = "none"
    /\ loaded = EmptyMap
    /\ runDir = [f \in Files |-> NoFile]
    /\ extracted = {}
    /\ extractedOk = {}
    /\ batchLog = <<>>
    /\ prev = NoRun

NextBatch ==
    \/ StartRaise
    \/ Start
    \/ ExtractFile
    \/ ProcessBatch
    \/ SaveOpen
    \/ SaveDump
    \/ CrashInSave

SpecBatch == InitBatch /\ [][NextBatch]_vars

\* ------------------------------------------------------------- SpecChunk

ChunkFile == FileA

IdleIngest ==
    /\ dir = [f \in Files |-> NoFile]
    /\ trackFile = AbsentFile
    /\ index = EmptyMap
    /\ pc = "off"
    /\ processed_files = EmptyMap
    /\ files_to_process = <<>>
    /\ skipped_files = <<>>
    /\ all_chunks = <<>>
    /\ processed_file_data = EmptyMap
    /\ pos = 0
    /\ total_upserted = 0
    /\ nRuns = 0
    /\ nWrites = 0
    /\ outcome = "none"
    /\ loaded = EmptyMap
    /\ runDir = [f \in Files |-> NoFile]
    /\ extracted = {}
    /\ extractedOk = {}
    /\ batchLog = <<>>
    /\ prev = NoRun

InitChunk ==
    /\ \E n \in 0..MaxTextLen : input = MakeText(1, n)
    /\ result = <<>>
    /\ cpc = "ready"
    /\ IdleIngest
    /\ IdleSession

CallChunkText ==
    /\ cpc = "ready"
    /\ result' = ChunkText(input, ChunkFile)
    /\ cpc' = "done"
    /\ UNCHANGED <<input, sessionVars, diskVars, runVars, histVars>>

NextChunk == CallChunkText

SpecChunk == InitChunk /\ [][NextChunk]_vars

\* ---------------------------------------------------------------- claims

SeqSet(s) == {s[i] : i \in 1..Len(s)}

\* The run returned from main (it neither raised nor was killed).
Returned(o) == o \in {"no_pdfs", "nothing_to_process", "no_chunks", "saved"}

\* The record r holds the size and mtime of the directory entry e.
StatEq(e, r) == e.size = r.size /\ e.mtime = r.mtime

\* Between two runs no file appeared, disappeared or changed size or mtime.
SameStats(d1, d2) ==
    \A f \in Files :
        /\ d1[f].present = d2[f].present
        /\ d1[f].present => d1[f].size = d2[f].size /\ d1[f].mtime = d2[f].mtime

\* File f has a record, loaded by this run, that its size or mtime differs from.
ChangedSinceRecord(f) ==
    /\ runDir[f].present
    /\ f \in DOMAIN loaded
    /\ ~StatEq(runDir[f], loaded[f])

\* The 1-based number of the batch that holds all_chunks[k].
BatchOf(k) == ((k - 1) \div BATCH_SIZE) + 1

(* C1, as claimed. Idempotent ingestion: whatever the first run did, when main
   runs twice in succession and no file's size or mtime changes in between,
   the second run puts no file in files_to_process and creates no chunk. *)
C1_IdempotentWhateverFirstRun ==
    (nRuns >= 2 /\ Returned(prev.outcome) /\ outcome # "raised"
        /\ SameStats(prev.dir, runDir))
    => (files_to_process = <<>> /\ all_chunks = <<>>)

(* C1, amended. The same, for a first run that left a record for every file:
   it returned having found no PDF or nothing to process, or it reached the
   save step after extracting a non-empty text from every file it had put in
   files_to_process. *)
C1_IdempotentAfterRecordedRun ==
    (nRuns >= 2 /\ outcome # "raised" /\ SameStats(prev.dir, runDir)
        /\ \/ prev.outcome \in {"no_pdfs", "nothing_to_process"}
           \/ prev.outcome = "saved" /\ prev.toProcess \subseteq prev.extractedOk)
    => (files_to_process = <<>> /\ all_chunks = <<>>)

\* A second run that skips both files the first run processed and saved.
C1_Witness ==
    /\ nRuns = 2
    /\ prev.outcome = "saved"
    /\ Cardinality(prev.toProcess) = 2
    /\ prev.toProcess \subseteq prev.extractedOk
    /\ SameStats(prev.dir, runDir)
    /\ outcome = "nothing_to_process"
    /\ Len(skipped_files) = 2

(* C2. At the end of a run a ProcessedFileRecord is written or overwritten
   only for files all of whose chunks were upserted in that run: a file that
   owns a chunk of a batch that raised keeps its record as it was. *)
C2_RecordOnlyWhenAllUpserted ==
    (pc = "idle" /\ outcome = "saved") =>
        \A f \in DOMAIN LoadProcessedFiles(trackFile) :
            (f \notin DOMAIN loaded \/ LoadProcessedFiles(trackFile)[f] # loaded[f])
            => \A k \in 1..Len(all_chunks) :
                   all_chunks[k].metadata.source = f => batchLog[BatchOf(k)] = "ok"

(* C3. At-least-once upsert: a chunk the chunker produced in some run is in
   the index in the end, if runs are repeated on the unchanged directory and
   the services stop failing. Stated for the first repeated run in which
   nothing fails: when a run has returned, the next run finds the directory
   as it was, gets a non-empty text from every file it extracts and has no
   failing batch, then every chunk the earlier run produced is in the index
   when that run has returned. *)
C3_ChunkUpsertedByCleanRerun ==
    (pc = "idle" /\ Returned(outcome) /\ nRuns >= 2 /\ Returned(prev.outcome)
        /\ prev.dir = runDir
        /\ extracted = extractedOk
        /\ \A k \in 1..Len(batchLog) : batchLog[k] = "ok")
    => \A k \in 1..Len(prev.chunks) :
           LET r == IndexRecord(prev.chunks[k])
           IN  r.id \in DOMAIN index /\ index[r.id] = r

(* C4. Per-batch failure isolation: when embedding or upserting a batch
   raises, the run does not abort: every later batch is attempted, and the
   records of every batch that succeeded, before or after it, are in the
   index. *)
C4_BatchFailureIsolated ==
    /\ pc = "batch" => Len(batchLog) = pos - 1
    /\ (batchLog # <<>> /\ pc # "batch") =>
          /\ Len(batchLog) = Len(PrepareBatches(all_chunks, BATCH_SIZE))
          /\ outcome \in {"running", "saved", "crashed"}
    /\ \A k \in 1..Len(batchLog) :
          batchLog[k] = "ok" =>
              \A i \in 1..Len(all_chunks) :
                  BatchOf(i) = k =>
                      LET r == IndexRecord(all_chunks[i])
                      IN  r.id \in DOMAIN index /\ index[r.id] = r

\* Three batches, the second of which raised, and the loop is over.
C4_Witness ==
    /\ pc = "save"
    /\ batchLog = <<"ok", "error", "ok">>

(* C5. Skip decision: a file of the directory is skipped by the run if and
   only if its name has a ProcessedFileRecord whose size and mtime both equal
   the file's; in every other case it is put in files_to_process. *)
C5_SkipDecision ==
    (nRuns > 0 /\ outcome # "raised") =>
        \A f \in Present(runDir) :
            LET known == f \in DOMAIN loaded /\ StatEq(runDir[f], loaded[f])
            IN  /\ f \in SeqSet(skipped_files) <=> known
                /\ f \in SeqSet(files_to_process) <=> ~known

\* One file is skipped while another, recorded with the same size and another
\* mtime, is processed.
C5_Witness ==
    /\ nRuns > 0 /\ outcome # "raised"
    /\ \E f, g \in Present(runDir) :
          /\ f \in SeqSet(skipped_files)
          /\ g \in SeqSet(files_to_process)
          /\ g \in DOMAIN loaded
          /\ runDir[g].size = loaded[g].size
          /\ runDir[g].mtime # loaded[g].mtime

(* C6, as claimed. Change detection: when a recorded file's size or mtime
   differs from its record at the start of a run, the run reprocesses the
   file and, when the run ends, the record holds the new size and mtime. *)
C6_ChangedFileRerecorded ==
    (pc = "idle" /\ Returned(outcome)) =>
        \A f \in Files :
            ChangedSinceRecord(f) =>
                /\ f \in extracted
                /\ f \in DOMAIN LoadProcessedFiles(trackFile)
                /\ StatEq(runDir[f], LoadProcessedFiles(trackFile)[f])

(* C6, amended. Such a file is passed to text extraction by every run that
   returns; when the run ends its record holds the new size and mtime if
   extraction returned a non-empty text and the run reached the save step,
   and is the record that was loaded otherwise. *)
C6_ChangedFileReextracted ==
    (pc = "idle" /\ Returned(outcome)) =>
        \A f \in Files :
            ChangedSinceRecord(f) =>
                /\ f \in extracted
                /\ f \in DOMAIN LoadProcessedFiles(trackFile)
                /\ IF f \in extractedOk /\ outcome = "saved"
                   THEN StatEq(runDir[f], LoadProcessedFiles(trackFile)[f])
                   ELSE LoadProcessedFiles(trackFile)[f] = loaded[f]

\* A changed file was extracted and its record now holds the new stat values.
C6_Witness ==
    /\ pc = "idle" /\ outcome = "saved"
    /\ \E f \in Files :
          /\ ChangedSinceRecord(f)
          /\ f \in extractedOk
          /\ StatEq(runDir[f], LoadProcessedFiles(trackFile)[f])

(* C7. Superseding on change: after a changed document is reprocessed in a
   run in which every batch succeeds, every index record whose source is
   that document is a chunk of the new chunking. *)
C7_OldVectorsReplaced ==
    (pc = "idle" /\ outcome = "saved" /\ \A k \in 1..Len(batchLog) : batchLog[k] = "ok") =>
        \A f \in extractedOk :
            ChangedSinceRecord(f) =>
                \A id \in DOMAIN index :
                    index[id].metadata.source = f =>
                        \E k \in 1..Len(all_chunks) :
                            /\ all_chunks[k].metadata.source = f
                            /\ IndexRecord(all_chunks[k]) = index[id]

(* C8. Crash safety of the tracking store: when the process is killed while
   save_processed_files is writing, a later load_processed_files returns the
   complete mapping as it was before the write or the complete new one. *)
C8_CrashKeepsOldOrNew ==
    (pc = "idle" /\ outcome = "crashed") =>
        LoadProcessedFiles(trackFile)
            \in {loaded, Update(loaded, processed_file_data)}


(* C9. Chunk offsets: every chunk chunk_text emits has
   char_end = char_start + len(text) and text = input[char_start:char_end],
   and two consecutive emitted chunks start CHUNK_SIZE - CHUNK_OVERLAP
   characters apart. *)
C9_ChunkOffsets ==
    cpc = "done" =>
        /\ \A k \in 1..Len(result) :
              LET c == result[k] IN
              /\ c.metadata.char_end = c.metadata.char_start + Len(Chars(c.text))
              /\ Chars(c.text) = SubSeq(Chars(input), c.metadata.char_start + 1,
                                        c.metadata.char_end)
        /\ \A k \in 1..(Len(result) - 1) :
              result[k + 1].metadata.char_start
                  = result[k].metadata.char_start + (CHUNK_SIZE - CHUNK_OVERLAP)

\* Two emitted chunks 800 apart, the second cut short by the end of the
\* text, and a third window that was discarded as shorter than 50.
C9_Witness ==
    /\ cpc = "done"
    /\ Len(result) = 2
    /\ result[2].metadata.char_end - result[2].metadata.char_start < CHUNK_SIZE
    /\ TLen(input) > 2 * (CHUNK_SIZE - CHUNK_OVERLAP)

(* C10. Chunk coverage: the emitted chunks tile a prefix of the text: the
   first starts at offset 0, each following chunk starts before the previous
   chunk's char_end, and the text after the last char_end (the whole text
   when nothing is emitted) is shorter than CHUNK_OVERLAP. *)
C10_ChunkCoverage ==
    cpc = "done" =>
        /\ Len(result) > 0 => result[1].metadata.char_start = 0
        /\ \A k \in 1..(Len(result) - 1) :
              result[k + 1].metadata.char_start < result[k].metadata.char_end
        /\ LET covered == IF Len(result) = 0 THEN 0
                          ELSE result[Len(result)].metadata.char_end
           IN  TLen(input) - covered < CHUNK_OVERLAP

\* Three overlapping chunks that reach the end of a text of more than 1650
\* characters.
C10_Witness ==
    /\ cpc = "done"
    /\ Len(result) = 3
    /\ result[3].metadata.char_end = TLen(input)
    /\ TLen(input) > 2 * (CHUNK_SIZE - CHUNK_OVERLAP) + MIN_CHUNK_LEN

(* C11. Chunk length bounds: every chunk chunk_text emits has a text of at
   least 50 and at most CHUNK_SIZE characters; a window whose slice is
   shorter than 50 characters is never emitted. *)
C11_ChunkLengthBounds ==
    cpc = "done" =>
        \A k \in 1..Len(result) :
            /\ Len(Chars(result[k].text)) >= 50
            /\ Len(Chars(result[k].text)) <= CHUNK_SIZE
            /\ result[k].text # EmptyText

\* A first chunk of CHUNK_SIZE characters and a last one of exactly 50.
C11_Witness ==
    /\ cpc = "done"
    /\ Len(result) = 3
    /\ TLen(result[1].text) = CHUNK_SIZE
    /\ TLen(result[3].text) = 50

(* C12. Dense sequence indices: the chunk_index values of the emitted chunks
   are 0, 1, ..., n-1 in emission order, with no gap for a discarded window. *)
C12_DenseChunkIndex ==
    cpc = "done" =>
        \A k \in 1..Len(result) : result[k].metadata.chunk_index = k - 1

\* Three chunks numbered 0, 1, 2.
C12_Witness ==
    /\ cpc = "done"
    /\ Len(result) = 3
    /\ result[3].metadata.chunk_index = 2
    /\ result[3].metadata.char_start = 2 * (CHUNK_SIZE - CHUNK_OVERLAP)

(* C13. Short input: for a text shorter than 50 characters, the empty text
   included, chunk_text returns the empty list (and raises nothing: the call
   ends). *)
C13_ShortInputNoChunks ==
    (cpc = "done" /\ Len(Chars(input)) < 50) => result = <<>>

\* The call has returned for a text of 49 characters.
C13_Witness ==
    /\ cpc = "done"
    /\ TLen(input) = 49
    /\ result = <<>>

\* The ids of the records main builds for the batch numbered p.
BatchIds(p) ==
    LET batch == PrepareBatches(all_chunks, BATCH_SIZE)[p]
    IN  {IndexRecord(batch[i]).id : i \in 1..Len(batch)}

(* C14. Vector id disjointness: in one ingestion run no two records of one
   batch and no two batches carry the same vector id, and
   doc_<source>_<chunk_index> is the same id only for the same source and
   the same chunk_index. *)
C14_VectorIdsDisjoint ==
    (pc = "batch" /\ pos = 1) =>
        LET batches == PrepareBatches(all_chunks, BATCH_SIZE)
        IN  /\ \A p \in 1..Len(batches) :
                   /\ Cardinality(BatchIds(p)) = Len(batches[p])
                   /\ \A q \in 1..Len(batches) :
                          p # q => BatchIds(p) \cap BatchIds(q) = {}
            /\ \A f \in Files, g \in Files :
               \A m \in 0..Len(all_chunks), n \in 0..Len(all_chunks) :
                   VectorId(f, m) = VectorId(g, n) => (f = g /\ m = n)

\* A run whose three batches hold chunks of both files, the second batch
\* holding chunk 0 of a file next to chunk 50 of the other.
C14_Witness ==
    /\ pc = "batch"
    /\ pos = 1
    /\ Len(PrepareBatches(all_chunks, BATCH_SIZE)) = 3
    /\ \E i \in 1..Len(all_chunks), j \in 1..Len(all_chunks) :
          /\ BatchOf(i) = 2
          /\ BatchOf(j) = 2
          /\ all_chunks[i].metadata.source # all_chunks[j].metadata.source
          /\ all_chunks[i].metadata.chunk_index = 50
          /\ all_chunks[j].metadata.chunk_index = 0

\* ------------------------------------------- prepare_batches on its own

MaxChunksPerFile == 4
MaxBatchSize == 4

\* A text that chunk_text cuts into c chunks.
TextOfChunks(doc, c) ==
    IF c = 0 THEN EmptyText ELSE MakeText(doc, (c - 1) * WindowStep + MIN_CHUNK_LEN)

\* all_chunks as main accumulates it: the chunks of a.pdf, then those of b.pdf.
InitPrepare ==
    /\ \E ca \in 0..MaxChunksPerFile, cb \in 0..MaxChunksPerFile,
          b \in 1..MaxBatchSize :
          input = [items |-> ChunkText(TextOfChunks(1, ca), FileA)
                             \o ChunkText(TextOfChunks(4, cb), FileB),
                   batch_size |-> b]
    /\ result = <<>>
    /\ cpc = "ready"
    /\ IdleIngest
    /\ IdleSession

\* list(prepare_batches(all_chunks, batch_size))
CallPrepareBatches ==
    /\ cpc = "ready"
    /\ result' = PrepareBatches(input.items, input.batch_size)
    /\ cpc' = "done"
    /\ UNCHANGED <<input, sessionVars, diskVars, runVars, histVars>>

NextPrepare == CallPrepareBatches

SpecPrepare == InitPrepare /\ [][NextPrepare]_vars

RECURSIVE Concat(_)
Concat(ss) == IF ss = <<>> THEN <<>> ELSE Head(ss) \o Concat(Tail(ss))

(* C15. Batching: for every list of accumulated chunks and batch size
   b >= 1, prepare_batches yields non-empty batches of at most b items whose
   concatenation in yield order is the input list. *)
C15_BatchesPartitionItems ==
    cpc = "done" =>
        /\ \A p \in 1..Len(result) :
               Len(result[p]) >= 1 /\ Len(result[p]) <= input.batch_size
        /\ Concat(result) = input.items

\* A full batch holding chunks of both files, followed by a partial batch.
C15_Witness ==
    /\ cpc = "done"
    /\ Len(result) = 3
    /\ Len(result[3]) < input.batch_size
    /\ \E i \in 1..Len(result[2]), j \in 1..Len(result[2]) :
          result[2][i].metadata.source # result[2][j].metadata.source

\* --------------------------- ai_services.py: format_sources, system prompt

MAX_SOURCES == 3
MAX_CHARS_PER_SOURCE == 800
\* The character '.' of the ellipsis marker; the characters of a source
\* text are 0..AlphabetSize-1.
DOT == 46
Ellipsis == <<DOT, DOT, DOT>>
\* len of the f-string of create_system_prompt with an empty context.
PROMPT_TEMPLATE_LEN == 241

UNKNOWN_SOURCE == <<"Unknown source">>
\* "No text available"
NO_TEXT_AVAILABLE == MakeText(0, 17)

\* A match of index.query: the metadata is what ingestion upserted.
Match(source, chunk_index, text) ==
    [id |-> VectorId(source, chunk_index),
     score |-> 0,
     metadata |-> [source |-> source, text |-> text, chunk_index |-> chunk_index]]

\* A record of the index that no ingestion run wrote: no source, no text.
ForeignMatch == [id |-> <<"x">>, score |-> 0, metadata |-> [kind |-> "foreign"]]

\* format_sources: one source object per match, in the order of the matches.
FormatSources(matches) ==
    [k \in 1..Len(matches) |->
        LET metadata == matches[k].metadata
        IN  [source |-> IF "source" \in DOMAIN metadata THEN metadata.source
                        ELSE UNKNOWN_SOURCE,
             text |-> IF "text" \in DOMAIN metadata THEN metadata.text
                      ELSE NO_TEXT_AVAILABLE,
             score |-> matches[k].score]]

\* context_docs[:3]
LimitedDocsAll(context_docs) == context_docs
LimitedDocs(context_docs) ==
    SubSeq(context_docs, 1, Min(MAX_SOURCES, Len(context_docs)))

\* doc['text'][:800] + "..." if len(doc['text']) > 800 else doc['text']
TextInPromptAtLimit(text) ==
    IF TLen(text) >= MAX_CHARS_PER_SOURCE
    THEN Chars(TSlice(text, 0, MAX_CHARS_PER_SOURCE)) \o Ellipsis
    ELSE Chars(text)
TextInPrompt(text) ==
    IF TLen(text) > MAX_CHARS_PER_SOURCE
    THEN Chars(TSlice(text, 0, MAX_CHARS_PER_SOURCE)) \o Ellipsis
    ELSE Chars(text)

\* f"\nSource {i+1} [{doc['source']}]: {text}\n", i counted from 0
SourceBlock(i, doc) ==
    [label |-> i + 1, source |-> doc.source, text |-> TextInPrompt(doc.text)]

\* create_system_prompt: the template with one block per limited doc.
CreateSystemPrompt(context_docs) ==
    LET limited_docs == LimitedDocs(context_docs)
    IN  [context |-> [k \in 1..Len(limited_docs) |->
                         SourceBlock(k - 1, limited_docs[k])]]

\* len of a file name, of a block and of the whole prompt, in characters.
RECURSIVE NameLen(_)
NameLen(source) ==
    IF source = <<>> THEN 0 ELSE Len(Head(source)) + NameLen(Tail(source))

BlockLen(block) ==
    Len("\nSource ") + Len(Digits(block.label)) + Len(" [") + NameLen(block.source)
    + Len("]: ") + Len(block.text) + Len("\n")

RECURSIVE ContextLen(_)
ContextLen(blocks) ==
    IF blocks = <<>> THEN 0 ELSE BlockLen(Head(blocks)) + ContextLen(Tail(blocks))

PromptLen(prompt) == PROMPT_TEMPLATE_LEN + ContextLen(prompt.context)

\* ------------------------------------------------ the prompt on its own

MaxMatches == 4

\* Chunks a query can match, and a record without source and text.
Candidates ==
    { Match(FileA, 2, MakeText(1, MAX_CHARS_PER_SOURCE + 1)),
      Match(FileA, 0, MakeText(2, MAX_CHARS_PER_SOURCE)),
      Match(FileB, 1, MakeText(3, CHUNK_SIZE)),
      Match(FileB, 0, MakeText(4, MIN_CHUNK_LEN)),
      ForeignMatch }

\* results.matches: distinct records, best score first.
Ranked(ms) == [k \in 1..Len(ms) |-> [ms[k] EXCEPT !.score = 100 - k]]

MatchLists ==
    UNION { { Ranked(ms) : ms \in { q \in [1..n -> Candidates] :
                                       \A i \in 1..n, j \in 1..n :
                                           i # j => q[i] # q[j] } }
            : n \in 0..MaxMatches }

InitPrompt ==
    /\ input \in MatchLists
    /\ result = <<>>
    /\ cpc = "ready"
    /\ IdleIngest
    /\ IdleSession

\* process_user_query, lines 122-128: format_sources, create_system_prompt.
BuildPrompt ==
    /\ cpc = "ready"
    /\ LET context_docs == FormatSources(input)
       IN  result' = [context_docs |-> context_docs,
                      system_prompt |-> CreateSystemPrompt(context_docs)]
    /\ cpc' = "done"
    /\ UNCHANGED <<input, sessionVars, diskVars, runVars, histVars>>

NextPrompt == BuildPrompt

SpecPrompt == InitPrompt /\ [][NextPrompt]_vars

\* ------------- ai_services.py: prepare_chat_messages, get_chat_completion

MAX_HISTORY_MESSAGES == 4
MAX_TOTAL_CHARS == 6000

Message(role, content) == [role |-> role, content |-> content]

\* [msg for msg in user_messages if msg["role"] != "system"]
NonSystem(user_messages) ==
    SelectSeq(user_messages, LAMBDA msg : msg.role # "system")

\* s[-n:] for n >= 1
LastN(s, n) == SubSeq(s, IF Len(s) > n THEN Len(s) - n + 1 ELSE 1, Len(s))

PrepareChatMessagesNoFilter(user_messages, system_prompt) ==
    <<Message("system", system_prompt)>> \o LastN(user_messages, MAX_HISTORY_MESSAGES)
PrepareChatMessagesSliceFirst(user_messages, system_prompt) ==
    <<Message("system", system_prompt)>>
        \o NonSystem(LastN(user_messages, MAX_HISTORY_MESSAGES))
PrepareChatMessages(user_messages, system_prompt) ==
    <<Message("system", system_prompt)>>
        \o LastN(NonSystem(user_messages), MAX_HISTORY_MESSAGES)

\* get_chat_completion, lines 125-130: the walk over reversed(messages);
\* k is the position of the message looked at, Len(messages) first.
\* if total_length + msg_length > 6000: break
OverBudgetAtLimit(total_length, msg_length) ==
    total_length + msg_length >= MAX_TOTAL_CHARS
OverBudget(total_length, msg_length) == total_length + msg_length > MAX_TOTAL_CHARS

RECURSIVE OptimizeLoop(_, _, _, _)
OptimizeLoop(chat_messages, k, optimized_messages, total_length) ==
    IF k = 0 THEN optimized_messages
    ELSE LET msg_length == TLen(chat_messages[k].content)
         IN  IF OverBudget(total_length, msg_length)
             THEN optimized_messages
             ELSE OptimizeLoop(chat_messages, k - 1,
                               <<chat_messages[k]>> \o optimized_messages,
                               total_length + msg_length)

OptimizedMessages(chat_messages) == OptimizeLoop(chat_messages, Len(chat_messages), <<>>, 0)

\* ---------------------------------------------- the messages on their own

MaxHistory == 5
ShortMessageLen == 100
LongMessageLen == 2500

\* A query, a short or a long answer, a system entry of the session.
MessageKinds ==
    { [role |-> "system", len |-> ShortMessageLen],
      [role |-> "user", len |-> ShortMessageLen],
      [role |-> "assistant", len |-> ShortMessageLen],
      [role |-> "assistant", len |-> LongMessageLen] }

\* st.session_state.messages: the k-th entry has a content of its own.
Histories ==
    UNION { { [k \in 1..n |-> Message(r[k].role, MakeText(k, r[k].len))]
              : r \in [1..n -> MessageKinds] }
            : n \in 0..MaxHistory }

\* The prompt of a query without match and of one with three long matches.
SystemPrompts ==
    { MakeText(0, PromptLen(CreateSystemPrompt(FormatSources(ms)))) :
        ms \in { <<>>,
                 Ranked(<<Match(FileA, 2, MakeText(1, MAX_CHARS_PER_SOURCE + 1)),
                          Match(FileB, 1, MakeText(3, CHUNK_SIZE)),
                          Match(FileA, 0, MakeText(2, MAX_CHARS_PER_SOURCE))>>) } }

InitMessages ==
    /\ \E h \in Histories, sp \in SystemPrompts :
          input = [user_messages |-> h, system_prompt |-> sp]
    /\ result = <<>>
    /\ cpc = "ready"
    /\ IdleIngest
    /\ IdleSession

\* process_user_query, line 129
CallPrepareChatMessages ==
    /\ cpc = "ready"
    /\ result' = [chat_messages |->
                     PrepareChatMessages(input.user_messages, input.system_prompt)]
    /\ cpc' = "prepared"
    /\ UNCHANGED <<input, sessionVars, diskVars, runVars, histVars>>

\* process_user_query, line 135: the list handed to chat.completions.create
CallGetChatCompletion ==
    /\ cpc = "prepared"
    /\ result' = [chat_messages |-> result.chat_messages,
                  optimized_messages |-> OptimizedMessages(result.chat_messages)]
    /\ cpc' = "done"
    /\ UNCHANGED <<input, sessionVars, diskVars, runVars, histVars>>

NextMessages == CallPrepareChatMessages \/ CallGetChatCompletion

SpecMessages == InitMessages /\ [][NextMessages]_vars

(* C16. The system message survives completion-side trimming: the list
   get_chat_completion sends still has the system message of
   prepare_chat_messages as its first element, and what it dropped are the
   oldest non-system messages. *)
C16_SystemMessageSurvivesTrimming ==
    cpc = "done" =>
        LET built == result.chat_messages
            sent == result.optimized_messages
        IN  /\ sent # <<>>
            /\ sent[1] = built[1]
            /\ \E d \in 0..(Len(built) - 1) :
                   sent = <<built[1]>> \o SubSeq(built, 2 + d, Len(built))

(* C17. Message-list guarantee: for every conversation history, the list
   prepare_chat_messages returns starts with the manufactured system
   message, holds exactly one system-role message and at most 4 non-system
   messages. *)
C17_OneSystemMessageFirst ==
    cpc \in {"prepared", "done"} =>
        LET out == result.chat_messages
        IN  /\ Len(out) >= 1
            /\ out[1] = [role |-> "system", content |-> input.system_prompt]
            /\ Cardinality({k \in 1..Len(out) : out[k].role = "system"}) = 1
            /\ Cardinality({k \in 1..Len(out) : out[k].role # "system"}) <= 4

\* A history of five entries, one of them a system entry among the last four.
C17_Witness ==
    /\ cpc = "prepared"
    /\ Len(input.user_messages) = 5
    /\ input.user_messages[4].role = "system"
    /\ Len(result.chat_messages) = 5

\* Positions of the history that are not system entries.
NonSystemPositions(h) == {p \in 1..Len(h) : h[p].role # "system"}

(* C18. Filter-then-slice: the non-system part of the result is, in the
   original order, the last 4 entries of the history that are not system
   entries; system entries among the last 4 raw entries do not reduce the
   number of messages kept. *)
C18_FilterThenSlice ==
    cpc \in {"prepared", "done"} =>
        LET h == input.user_messages
            out == Tail(result.chat_messages)
            kept == {p \in NonSystemPositions(h) :
                        Cardinality({q \in NonSystemPositions(h) : q > p}) < 4}
        IN  /\ Len(out) = Min(4, Cardinality(NonSystemPositions(h)))
            /\ Len(out) = Cardinality(kept)
            /\ \A p \in kept : out[Cardinality({q \in kept : q <= p})] = h[p]

\* Five entries, the third a system entry: the four others are all kept.
C18_Witness ==
    /\ cpc = "prepared"
    /\ Len(input.user_messages) = 5
    /\ input.user_messages[3].role = "system"
    /\ Cardinality(NonSystemPositions(input.user_messages)) = 4
    /\ Tail(result.chat_messages) =
          <<input.user_messages[1], input.user_messages[2],
            input.user_messages[4], input.user_messages[5]>>

(* C19. Source selection and labelling: for a ranked list of n sources the
   prompt holds one block for each of the first min(n, 3) sources, in rank
   order, the block at rank i labelled Source i with that source's name,
   and no block for a lower-ranked source; the label is the rank, whatever
   the chunk_index of the chunk. *)
C19_TopSourcesLabelledByRank ==
    cpc = "done" =>
        LET blocks == result.system_prompt.context
        IN  /\ Len(blocks) = Min(Len(input), 3)
            /\ \A k \in 1..Len(blocks) :
                   /\ blocks[k].label = k
                   /\ "source" \in DOMAIN input[k].metadata
                          => blocks[k].source = input[k].metadata.source
                   /\ "text" \in DOMAIN input[k].metadata
                          => SubSeq(blocks[k].text, 1, MIN_CHUNK_LEN)
                               = SubSeq(Chars(input[k].metadata.text), 1, MIN_CHUNK_LEN)

\* Four matches, chunk 2 of a.pdf ranked first and labelled Source 1, the
\* fourth match left out.
C19_Witness ==
    /\ cpc = "done"
    /\ Len(input) = 4
    /\ "chunk_index" \in DOMAIN input[1].metadata
    /\ input[1].metadata.chunk_index = 2
    /\ Len(result.system_prompt.context) = 3
    /\ result.system_prompt.context[1].label = 1
    /\ result.system_prompt.context[1].source = FileA

(* C20. Source truncation: the text of a retained source in the prompt is
   the full source text when that has at most 800 characters, otherwise its
   first 800 characters followed by "..."; no text in the prompt is longer
   than 803 characters. *)
C20_SourceTextTruncated ==
    cpc = "done" =>
        LET blocks == result.system_prompt.context
        IN  \A k \in 1..Len(blocks) :
                LET full == Chars(result.context_docs[k].text)
                    shown == blocks[k].text
                IN  /\ Len(shown) <= 800 + 3
                    /\ IF Len(full) <= 800
                       THEN shown = full
                       ELSE /\ Len(shown) = 800 + 3
                            /\ SubSeq(shown, 1, 800) = SubSeq(full, 1, 800)
                            /\ SubSeq(shown, 801, 803) = <<DOT, DOT, DOT>>

\* A text of exactly 800 characters shown in full next to one of 801
\* characters shown cut with the ellipsis.
C20_Witness ==
    /\ cpc = "done"
    /\ \E k \in 1..Len(result.system_prompt.context),
          l \in 1..Len(result.system_prompt.context) :
          /\ TLen(result.context_docs[k].text) = 800
          /\ Len(result.system_prompt.context[k].text) = 800
          /\ TLen(result.context_docs[l].text) = 801
          /\ Len(result.system_prompt.context[l].text) = 803

\* ------------------------------------ search_features.py: validate_query

MIN_QUERY_CHARS == 3
MAX_QUERY_LENGTH == 500

\* A query string: lead spaces, a body that neither starts nor ends with
\* whitespace, trail spaces; caps says that the body has upper-case letters.
Query(lead, caps, body, trail) ==
    [lead |-> lead, caps |-> caps, body |-> body, trail |-> trail]

\* len(query)
QLen(query) == query.lead + TLen(query.body) + query.trail

\* query.strip() and query.lower()
Strip(query) == [query EXCEPT !.lead = 0, !.trail = 0]
Lower(query) == [query EXCEPT !.caps = FALSE]

\* if not query or len(query.strip()) < 3: return False
ValidateQueryAboveMin(query) ==
    ~(QLen(query) = 0 \/ QLen(Strip(query)) <= MIN_QUERY_CHARS)
ValidateQuery(query) == ~(QLen(query) = 0 \/ QLen(Strip(query)) < MIN_QUERY_CHARS)

\* ------------------------------------------- main.py: process_user_query

CACHE_MAX_AGE == 300
MAX_CACHE_ENTRIES == 10
CHAT_HISTORY_LIMIT == 10
PREVIEW_CHARS == 100

\* cache_key = user_input.lower().strip()
CacheKey(user_input) == Strip(Lower(user_input))

\* query_cache is a dict: a sequence of entries with distinct keys, in
\* insertion order.
CachePositions(cache, key) == {i \in 1..Len(cache) : cache[i].key = key}
CacheHas(cache, key) == CachePositions(cache, key) # {}
CacheGet(cache, key) == cache[CHOOSE i \in CachePositions(cache, key) : TRUE]

\* query_cache[cache_key] = {...}: a present key keeps its place.
CachePut(cache, entry) ==
    IF CacheHas(cache, entry.key)
    THEN [i \in 1..Len(cache) |-> IF cache[i].key = entry.key THEN entry ELSE cache[i]]
    ELSE Append(cache, entry)

\* min(query_cache.keys(), key=timestamp): the first of the smallest ones.
OldestPosition(cache) ==
    CHOOSE i \in 1..Len(cache) :
        /\ \A j \in 1..Len(cache) : cache[i].timestamp <= cache[j].timestamp
        /\ \A j \in 1..(i - 1) : cache[j].timestamp > cache[i].timestamp

\* del query_cache[oldest_key]
CacheDel(cache, i) == SubSeq(cache, 1, i - 1) \o SubSeq(cache, i + 1, Len(cache))

\* main.py, lines 146-156: store the response, then evict when too large.
StoreResponseNoEviction(cache, entry) == CachePut(cache, entry)
StoreResponse(cache, entry) ==
    LET stored == CachePut(cache, entry)
    IN  IF Len(stored) > MAX_CACHE_ENTRIES
        THEN CacheDel(stored, OldestPosition(stored))
        ELSE stored

\* if time.time() - cached_response['timestamp'] < 300
IsFreshUpToLimit(entry, t) == t - entry.timestamp <= CACHE_MAX_AGE
IsFresh(entry, t) == t - entry.timestamp < CACHE_MAX_AGE

\* The cached response process_user_query would use at time t, if any.
HasFreshEntry(cache, user_input, t) ==
    /\ CacheHas(cache, CacheKey(user_input))
    /\ IsFresh(CacheGet(cache, CacheKey(user_input)), t)

\* add_to_search_history(query, response_preview)
AddToSearchHistory(history, query, response_preview, t) ==
    IF QLen(query) # 0 /\ \A i \in 1..Len(history) : history[i].query # query
    THEN LET added ==
                Append(history,
                       [query |-> query,
                        timestamp |-> t \div 60,
                        preview |-> IF TLen(response_preview) > PREVIEW_CHARS
                                    THEN [text |-> TSlice(response_preview, 0, PREVIEW_CHARS),
                                          ellipsis |-> TRUE]
                                    ELSE [text |-> response_preview, ellipsis |-> FALSE]])
         IN  LastN(added, CHAT_HISTORY_LIMIT)
    ELSE history

\* query_pinecone: the matches the index returns for a query depend on the
\* words of the query; two chunks per query here.
ResultsFor(user_input) ==
    Ranked(<<Match(FileA, user_input.body.doc, MakeText(user_input.body.doc, CHUNK_SIZE)),
             Match(FileB, 0, MakeText(user_input.body.doc + 1, MIN_CHUNK_LEN))>>)

\* The text the completion service returns in the turn numbered n.
ResponseOf(n) == MakeText(100 + n, ShortMessageLen)

\* initialize_session_state
\* "You are a helpful legal research assistant." has 43 characters.
InitialMessages == <<Message("system", MakeText(0, 43))>>

\* The three remote calls of a turn, in call order.
RemoteCalls == <<"embedding", "search", "completion">>

\* handle_query_input, lines 199-202: a truthy input is appended to the
\* history and counted before process_user_query is called; d seconds have
\* passed since the turn before.
HandleQueryInput(user_input, d) ==
    /\ tpc = "idle"
    /\ QLen(user_input) # 0
    /\ now' = now + d
    /\ messages' = Append(messages, Message("user", user_input))
    /\ chat_count' = chat_count + 1
    /\ turn' = [query |-> user_input, before |-> messages, calls |-> <<>>,
                outcome |-> "running"]
    /\ tpc' = "process"
    /\ UNCHANGED <<last_sources, search_history, query_cache, cited>>
    /\ UNCHANGED <<chunkVars, diskVars, runVars, histVars>>

\* process_user_query, lines 92-94: an invalid query returns at once.
RejectQueryAfterSearch ==
    /\ tpc = "process"
    /\ ~ValidateQuery(turn.query)
    /\ turn' = [turn EXCEPT !.calls = SubSeq(RemoteCalls, 1, 2), !.outcome = "rejected"]
    /\ tpc' = "idle"
    /\ UNCHANGED <<messages, last_sources, search_history, query_cache, chat_count,
                   now, cited>>
    /\ UNCHANGED <<chunkVars, diskVars, runVars, histVars>>
RejectQuery ==
    /\ tpc = "process"
    /\ ~ValidateQuery(turn.query)
    /\ turn' = [turn EXCEPT !.outcome = "rejected"]
    /\ tpc' = "idle"
    /\ UNCHANGED <<messages, last_sources, search_history, query_cache, chat_count,
                   now, cited>>
    /\ UNCHANGED <<chunkVars, diskVars, runVars, histVars>>

\* process_user_query, lines 101-109: a fresh cache entry answers the query.
UseCachedResponse ==
    /\ tpc = "process"
    /\ ValidateQuery(turn.query)
    /\ HasFreshEntry(query_cache, turn.query, now)
    /\ LET cached_response == CacheGet(query_cache, CacheKey(turn.query))
       IN  /\ messages' = Append(messages, Message("assistant", cached_response.response))
           /\ last_sources' = cached_response.sources
           /\ cited' = cached_response.sources
    /\ turn' = [turn EXCEPT !.outcome = "cached"]
    /\ tpc' = "idle"
    /\ UNCHANGED <<search_history, query_cache, chat_count, now>>
    /\ UNCHANGED <<chunkVars, diskVars, runVars, histVars>>

\* process_user_query, lines 115-165: every remote call succeeds.
AnswerQuery ==
    /\ tpc = "process"
    /\ ValidateQuery(turn.query)
    /\ ~HasFreshEntry(query_cache, turn.query, now)
    /\ LET sources == FormatSources(ResultsFor(turn.query))
           response == ResponseOf(chat_count)
       IN  /\ last_sources' = sources
           /\ messages' = Append(messages, Message("assistant", response))
           /\ search_history' = AddToSearchHistory(search_history, turn.query, response, now)
           /\ query_cache' = StoreResponse(query_cache,
                                           [key |-> CacheKey(turn.query),
                                            response |-> response,
                                            sources |-> sources,
                                            timestamp |-> now])
           /\ cited' = sources
    /\ turn' = [turn EXCEPT !.calls = RemoteCalls, !.outcome = "answered"]
    /\ tpc' = "idle"
    /\ UNCHANGED <<chat_count, now>>
    /\ UNCHANGED <<chunkVars, diskVars, runVars, histVars>>

\* process_user_query, lines 115-135 and 167-170: the remote call numbered
\* failing raises; last_sources was set if the search had returned.
FailQueryWithFallbackAnswer ==
    /\ tpc = "process"
    /\ ValidateQuery(turn.query)
    /\ ~HasFreshEntry(query_cache, turn.query, now)
    /\ turn' = [turn EXCEPT !.calls = SubSeq(RemoteCalls, 1, 1), !.outcome = "failed"]
    /\ messages' = Append(messages, Message("assistant", EmptyText))
    /\ tpc' = "idle"
    /\ UNCHANGED <<last_sources, search_history, query_cache, chat_count, now, cited>>
    /\ UNCHANGED <<chunkVars, diskVars, runVars, histVars>>
FailQuery ==
    /\ tpc = "process"
    /\ ValidateQuery(turn.query)
    /\ ~HasFreshEntry(query_cache, turn.query, now)
    /\ \E failing \in 1..Len(RemoteCalls) :
          /\ turn' = [turn EXCEPT !.calls = SubSeq(RemoteCalls, 1, failing),
                                  !.outcome = "failed"]
          /\ last_sources' = IF failing = Len(RemoteCalls)
                             THEN FormatSources(ResultsFor(turn.query))
                             ELSE last_sources
    /\ tpc' = "idle"
    /\ UNCHANGED <<messages, search_history, query_cache, chat_count, now, cited>>
    /\ UNCHANGED <<chunkVars, diskVars, runVars, histVars>>

\* ------------------------------------------------------ a chat session

MaxTurns == 3

\* "abc", " ABC ", "wxyz", a query of 501 characters, " ab " and "   ".
Queries ==
    { Query(0, FALSE, MakeText(1, MIN_QUERY_CHARS), 0),
      Query(1, TRUE, MakeText(1, MIN_QUERY_CHARS), 1),
      Query(0, FALSE, MakeText(4, MIN_QUERY_CHARS + 1), 0),
      Query(0, FALSE, MakeText(2, MAX_QUERY_LENGTH + 1), 0),
      Query(1, FALSE, MakeText(3, MIN_QUERY_CHARS - 1), 1),
      Query(MIN_QUERY_CHARS, FALSE, EmptyText, 0) }

\* Seconds between two turns.
Delays == {CACHE_MAX_AGE - 1, CACHE_MAX_AGE}

InitChat ==
    /\ IdleChunk
    /\ IdleIngest
    /\ messages = InitialMessages
    /\ last_sources = <<>>
    /\ search_history = <<>>
    /\ query_cache = <<>>
    /\ chat_count = 0
    /\ now = 0
    /\ tpc = "idle"
    /\ turn = NoTurn
    /\ cited = <<>>

AskAnyQuery ==
    /\ chat_count < MaxTurns
    /\ \E user_input \in Queries, d \in Delays : HandleQueryInput(user_input, d)

NextChat == AskAnyQuery \/ RejectQuery \/ UseCachedResponse \/ AnswerQuery \/ FailQuery

SpecChat == InitChat /\ [][NextChat]_vars

\* The turn has ended: process_user_query has returned.
TurnEnded == tpc = "idle" /\ turn.outcome # "none"

\* The number of characters of the query of the turn between its
\* surrounding whitespace.
TrimmedLength == TLen(turn.query.body)

(* C21. Query validation, lower boundary: a query whose trimmed length is
   below 3 (the empty query and a query of whitespace included) is rejected,
   and a query whose trimmed length is exactly 3 is accepted: it is answered
   from the cache or goes on to the retrieval calls. *)
C21_ShortQueryRejected ==
    /\ ~ValidateQuery(Query(0, FALSE, EmptyText, 0))
    /\ TurnEnded =>
          /\ TrimmedLength < 3 => turn.outcome = "rejected"
          /\ TrimmedLength = 3 =>
                /\ turn.outcome \in {"cached", "answered", "failed"}
                /\ turn.outcome # "cached" => Len(turn.calls) >= 1

\* " ab " was rejected in the turn before, "abc" has now been answered.
C21_Witness ==
    /\ TurnEnded
    /\ TrimmedLength = 3
    /\ turn.outcome = "answered"
    /\ turn.calls = RemoteCalls
    /\ Len(turn.before) = 2
    /\ turn.before[2].content.lead = 1
    /\ TLen(turn.before[2].content.body) = 2
    /\ Len(messages) = 4

(* C22. Query validation, upper boundary: a query whose trimmed length is
   greater than 500 is rejected and reaches no embedding or search call. *)
C22_LongQueryRejected ==
    (TurnEnded /\ TrimmedLength > 500) =>
        (turn.outcome = "rejected" /\ turn.calls = <<>>)

(* C23. Zero-cost rejection: a step of process_user_query on a query that
   validate_query rejects ends the turn with no remote call made. *)
C23_RejectionMakesNoCall ==
    [][(tpc = "process" /\ TrimmedLength < 3)
          => (turn'.calls = <<>> /\ turn'.outcome \in {"running", "rejected"}
              /\ messages' = messages /\ last_sources' = last_sources
              /\ query_cache' = query_cache)]_vars

\* A query of whitespace only has been rejected after an answered turn.
C23_Witness ==
    /\ TurnEnded
    /\ turn.outcome = "rejected"
    /\ turn.query.body = EmptyText
    /\ turn.calls = <<>>
    /\ chat_count = 2
    /\ Len(query_cache) = 1

(* C24. Failed turns leave the chat history unchanged: after a turn in which
   a remote call failed, the message history is the history before the turn
   started in handle_query_input. *)
C24_FailedTurnKeepsHistory ==
    (TurnEnded /\ turn.outcome = "failed") => messages = turn.before

(* C25. No fabricated answer on failure: the step of process_user_query in
   which a remote call raises appends no message, writes no query_cache
   entry and adds no search_history entry. *)
C25_NoAnswerOnFailure ==
    [][(tpc = "process" /\ turn'.outcome = "failed")
          => /\ messages' = messages
             /\ messages'[Len(messages')].role = "user"
             /\ query_cache' = query_cache
             /\ search_history' = search_history]_vars

\* The completion call failed in the second turn, after an answered turn.
C25_Witness ==
    /\ TurnEnded
    /\ turn.outcome = "failed"
    /\ turn.calls = RemoteCalls
    /\ chat_count = 2
    /\ Len(query_cache) = 1
    /\ Len(search_history) = 1
    /\ Len(messages) = 4

\* The history holds an answer.
HasAnswer == \E i \in 1..Len(messages) : messages[i].role = "assistant"

(* C26. Citation consistency: in every session state, last_sources is the
   source list of the query call that produced the most recent assistant
   message of the history. *)
C26_SourcesOfLastAnswer ==
    HasAnswer => last_sources = cited

\* ------------------------------------- get_chat_completion on its own

MaxTrimLen == 4

\* Messages of 100, 2500, 6000 and 6001 characters.
TrimKinds ==
    { [role |-> "system", len |-> ShortMessageLen],
      [role |-> "user", len |-> ShortMessageLen],
      [role |-> "assistant", len |-> LongMessageLen],
      [role |-> "user", len |-> MAX_TOTAL_CHARS],
      [role |-> "user", len |-> MAX_TOTAL_CHARS + 1] }

TrimInputs ==
    UNION { { [k \in 1..n |-> Message(r[k].role, MakeText(k, r[k].len))]
              : r \in [1..n -> TrimKinds] }
            : n \in 0..MaxTrimLen }

InitTrim ==
    /\ input \in TrimInputs
    /\ result = <<>>
    /\ cpc = "ready"
    /\ IdleIngest
    /\ IdleSession

\* get_chat_completion, lines 121-130: the list passed as messages=.
CallOptimize ==
    /\ cpc = "ready"
    /\ result' = [optimized_messages |-> OptimizedMessages(input)]
    /\ cpc' = "done"
    /\ UNCHANGED <<input, sessionVars, diskVars, runVars, histVars>>

NextTrim == CallOptimize

SpecTrim == InitTrim /\ [][NextTrim]_vars

\* The content length of the messages of s from position k on.
RECURSIVE SuffixChars(_, _)
SuffixChars(s, k) ==
    IF k > Len(s) THEN 0 ELSE TLen(s[k].content) + SuffixChars(s, k + 1)

(* C27. Completion trimming result: the list get_chat_completion sends is
   the longest contiguous suffix of its input whose total content length is
   at most 6000 characters: the whole input when the total is within 6000,
   the empty list when the most recent message alone is longer. *)
C27_LongestSuffixWithinBudget ==
    cpc = "done" =>
        LET sent == result.optimized_messages
            first == Len(input) - Len(sent) + 1
        IN  /\ Len(sent) <= Len(input)
            /\ sent = SubSeq(input, first, Len(input))
            /\ SuffixChars(input, first) <= 6000
            /\ \A k \in 1..(first - 1) : SuffixChars(input, k) > 6000
            /\ SuffixChars(input, 1) <= 6000 => sent = input
            /\ (Len(input) >= 1 /\ SuffixChars(input, Len(input)) > 6000) => sent = <<>>

\* Four messages of 2500, 2500, 100 and 2500 characters: the first is dropped.
C27_Witness ==
    /\ cpc = "done"
    /\ Len(input) = 4
    /\ TLen(input[1].content) = 2500
    /\ TLen(input[3].content) = 100
    /\ SuffixChars(input, 1) = 7600
    /\ result.optimized_messages = Tail(input)

\* ------------------------------------------ a session with a full cache

MaxCacheTurns == 2

\* The k-th of the distinct questions of a long session.
FreshQuery(k) == Query(0, FALSE, MakeText(10 + k, MIN_QUERY_CHARS + k), 0)

\* The session after n turns, gap seconds apart, in which FreshQuery(1) ..
\* FreshQuery(n) were asked and answered: HandleQueryInput and AnswerQuery
\* applied n times.
RECURSIVE Warm(_, _)
Warm(n, gap) ==
    IF n = 0
    THEN [messages |-> InitialMessages, last_sources |-> <<>>, search_history |-> <<>>,
          query_cache |-> <<>>, now |-> 0]
    ELSE LET w == Warm(n - 1, gap)
             user_input == FreshQuery(n)
             t == w.now + gap
             sources == FormatSources(ResultsFor(user_input))
             response == ResponseOf(n)
         IN  [messages |-> Append(Append(w.messages, Message("user", user_input)),
                                  Message("assistant", response)),
              last_sources |-> sources,
              search_history |-> AddToSearchHistory(w.search_history, user_input, response, t),
              query_cache |-> StoreResponse(w.query_cache,
                                            [key |-> CacheKey(user_input),
                                             response |-> response,
                                             sources |-> sources,
                                             timestamp |-> t]),
              now |-> t]

\* Seconds between two turns of the session so far, and from now on.
WarmGaps == {1, CACHE_MAX_AGE}
CacheDelays == {1, CACHE_MAX_AGE}

InitCache ==
    /\ IdleChunk
    /\ IdleIngest
    /\ \E n \in {MAX_CACHE_ENTRIES - 1, MAX_CACHE_ENTRIES}, gap \in WarmGaps :
          LET w == Warm(n, gap)
          IN  /\ messages = w.messages
              /\ last_sources = w.last_sources
              /\ search_history = w.search_history
              /\ query_cache = w.query_cache
              /\ chat_count = n
              /\ now = w.now
              /\ turn = [query |-> FreshQuery(n), before |-> Warm(n - 1, gap).messages,
                         calls |-> RemoteCalls, outcome |-> "answered"]
              /\ cited = w.last_sources
    /\ tpc = "idle"

\* A new question, the first or the second question again (the second in
\* capitals), or a blank input.
AskCacheQuery ==
    /\ chat_count < MAX_CACHE_ENTRIES + MaxCacheTurns
    /\ \E user_input \in { FreshQuery(chat_count + 1),
                           FreshQuery(1),
                           [FreshQuery(2) EXCEPT !.caps = TRUE, !.trail = 1],
                           Query(1, FALSE, EmptyText, 0) },
          d \in CacheDelays : HandleQueryInput(user_input, d)

NextCache == AskCacheQuery \/ RejectQuery \/ UseCachedResponse \/ AnswerQuery \/ FailQuery

SpecCache == InitCache /\ [][NextCache]_vars

\* Positions of the cache entries stored for the words of the query of the
\* turn, whatever its case and surrounding whitespace.
EntriesOfQuery == {i \in 1..Len(query_cache) : query_cache[i].key.body = turn.query.body}

(* C28. Bounded response cache: query_cache never holds more than 10
   entries; when a new response is stored into a cache of 10 entries, the
   cache afterwards is the old one without exactly one entry, one of
   smallest timestamp, followed by the new entry. *)
C28_CacheBoundedOldestEvicted ==
    /\ Len(query_cache) <= 10
    /\ [][/\ Len(query_cache') <= 10
          /\ (tpc = "process" /\ turn'.outcome = "answered"
              /\ Len(query_cache) = 10 /\ EntriesOfQuery = {})
             => \E i \in 1..10 :
                   /\ \A j \in 1..10 : query_cache[i].timestamp <= query_cache[j].timestamp
                   /\ query_cache[i].timestamp <= now
                   /\ Len(query_cache') = 10
                   /\ \A j \in 1..9 :
                         query_cache'[j] = query_cache[IF j < i THEN j ELSE j + 1]
                   /\ query_cache'[10].key.body = turn.query.body
                   /\ query_cache'[10].timestamp = now]_vars

\* The eleventh question has been answered: the entry of the first question
\* is gone, the cache starts with the entry of the second one.
C28_Witness ==
    /\ tpc = "idle"
    /\ turn.outcome = "answered"
    /\ chat_count = 11
    /\ turn.query = FreshQuery(11)
    /\ Len(query_cache) = 10
    /\ query_cache[1].key = FreshQuery(2)
    /\ query_cache[10].key = FreshQuery(11)

(* C29. Cache hit and expiry: a step of process_user_query on a valid query
   whose normalized form has a cache entry younger than 300 seconds makes no
   remote call, appends the cached response as one assistant message and
   sets last_sources to the cached sources; with an entry of 300 seconds or
   more the remote calls are made and, on success, the entry is overwritten
   with the new response and the time of the turn. *)
C29_CacheHitAndExpiry ==
    [][(tpc = "process" /\ TrimmedLength >= 3 /\ tpc' = "idle")
          => \A i \in EntriesOfQuery :
                IF now - query_cache[i].timestamp < 300
                THEN /\ turn'.calls = <<>>
                     /\ messages' = Append(messages,
                                           [role |-> "assistant",
                                            content |-> query_cache[i].response])
                     /\ last_sources' = query_cache[i].sources
                     /\ query_cache' = query_cache
                ELSE /\ turn'.calls # <<>>
                     /\ turn'.outcome \in {"answered", "failed"}
                     /\ turn'.outcome = "failed" => query_cache' = query_cache
                     /\ turn'.outcome = "answered" =>
                           /\ Len(query_cache') = Len(query_cache)
                           /\ query_cache'[i].key = query_cache[i].key
                           /\ query_cache'[i].timestamp = now
                           /\ query_cache'[i].response = messages'[Len(messages')].content
                           /\ query_cache'[i].response # query_cache[i].response
                           /\ \A j \in 1..Len(query_cache) :
                                 j # i => query_cache'[j] = query_cache[j]]_vars

\* " ABC " has been answered from the entry of "abc", which had been
\* overwritten when "abc" was asked again 300 seconds after the first time.
C29_Witness ==
    /\ TurnEnded
    /\ turn.outcome = "cached"
    /\ turn.query.caps
    /\ turn.query.lead = 1
    /\ chat_count = 3
    /\ Len(query_cache) = 1
    /\ query_cache[1].key.lead = 0
    /\ ~query_cache[1].key.caps
    /\ query_cache[1].timestamp > 300
    /\ now - query_cache[1].timestamp = 299
    /\ messages[Len(messages)].content = query_cache[1].response

\* Files the run found in the directory and did not skip.
ToProcess == {files_to_process[i] : i \in 1..Len(files_to_process)}

(* C30. Frame of the tracking store: after a run that saved, the record of
   every skipped file and of every recorded file that is no longer in the
   directory is as it was loaded, and a record that was added or changed
   belongs to a file processed in this run; the steps of a run before the
   save step, those of an early exit included, do not write the store. *)
C30_TrackingStoreFrame ==
    /\ [](outcome = "saved" =>
             /\ trackFile.state = "json"
             /\ \A f \in DOMAIN loaded :
                    (f \in SeqSet(skipped_files) \/ runDir[f] = NoFile)
                        => (f \in DOMAIN trackFile.data /\ trackFile.data[f] = loaded[f])
             /\ \A f \in DOMAIN trackFile.data :
                    (f \notin DOMAIN loaded \/ trackFile.data[f] # loaded[f])
                        => f \in ToProcess)
    /\ [][(pc \in {"idle", "extract", "batch"}) => (trackFile' = trackFile)]_vars

\* The second run skipped one file, whose record is as loaded, and wrote a
\* new record for the other one.
C30_Witness ==
    /\ outcome = "saved"
    /\ nRuns = 2
    /\ \E f \in Files, g \in Files :
          /\ skipped_files = <<f>>
          /\ files_to_process = <<g>>
          /\ f \in DOMAIN loaded
          /\ g \in DOMAIN loaded
          /\ trackFile.data[f] = loaded[f]
          /\ trackFile.data[g] # loaded[g]

====
